---- MODULE Spec2Model ----
(***************************************************************************)
(* Products/Brands REST API (Express + Mongoose).                          *)
(*                                                                         *)
(* Two programs share one document store:                                  *)
(*   - seed/brandsProducts.js, the seed script (main / run);               *)
(*   - server.js, five GET routes.                                         *)
(* The store is the two collections `brands` and `products`.  Every await  *)
(* of the source is a suspension point, so every async function is cut     *)
(* into one action per segment between awaits; the database completing an  *)
(* operation is a step of its own.                                         *)
(*                                                                         *)
(* ObjectIds are natural numbers; on the wire (req.params.id, JSON bodies) *)
(* they are lowercase hex strings of IdLen digits, modelled as sequences   *)
(* of one-character strings.  Timestamps and __v are left out of the       *)
(* documents: no route and no seed step reads them.                        *)
(***************************************************************************)
EXTENDS Integers, Sequences, FiniteSets, TLC

\* ---------------------------------------------------------------- bounds
\* how many times the seed script is run while the server takes requests
MaxRuns == 1
\* how many times the seed script is run when it runs alone
MaxSeedRuns == 2
\* how many HTTP requests arrive
NumReq == 2
\* hex digits of an identifier on the wire (24 in a real ObjectId)
IdLen == 2

Requests == 1..NumReq

\* ------------------------------------------------------- identifiers, JSON
HexDigits ==
  <<"0", "1", "2", "3", "4", "5", "6", "7", "8", "9", "a", "b", "c", "d", "e", "f">>

Base == Len(HexDigits)

RECURSIVE Pow(_, _)
Pow(b, e) == IF e = 0 THEN 1 ELSE b * Pow(b, e - 1)

\* ObjectId.toString / toJSON: the hex form of an identifier
ToHex(n) == [i \in 1..IdLen |-> HexDigits[((n \div Pow(Base, IdLen - i)) % Base) + 1]]

DigitValue(c) == (CHOOSE k \in 1..Base : HexDigits[k] = c) - 1

IsHexDigit(c) == \E k \in 1..Base : HexDigits[k] = c

\* what the ObjectId cast accepts
WellFormed(s) == Len(s) = IdLen /\ \A i \in 1..Len(s) : IsHexDigit(s[i])

RECURSIVE FromHex(_)
FromHex(s) ==
  IF s = <<>> THEN 0
  ELSE Base * FromHex(SubSeq(s, 1, Len(s) - 1)) + DigitValue(s[Len(s)])

\* ------------------------------------------------------------------ schemas
\* brandSchema: name and url, both required strings
brandSchema(input, id) == [_id |-> id, name |-> input.name, url |-> input.url]

brandValid(doc) == doc.name # "" /\ doc.url # ""

\* productSchema without the brand path: strict mode drops the field
productSchema_noBrand(input, id) ==
  [_id |-> id, title |-> input.title, description |-> input.description,
   price |-> input.price, brand |-> 0]

\* productSchema: title, description, price required strings; brand an
\* ObjectId reference that nothing checks against the brands collection
productSchema(input, id) ==
  [_id |-> id, title |-> input.title, description |-> input.description,
   price |-> input.price, brand |-> input.brand]

productValid(doc) == doc.title # "" /\ doc.description # "" /\ doc.price # ""

\* ---------------------------------------------------------------- seed data
SeedBrands ==
  << [name |-> "Apple", url |-> "https://www.apple.com"],
     [name |-> "Vespa", url |-> "https://www.vespa.com"],
     [name |-> "New Balance", url |-> "https://www.newbalance.com"],
     [name |-> "Tribe", url |-> "https://www.tribebicycles.com"],
     [name |-> "Stumptown", url |-> "https://www.stumptowncoffee.com"] >>

\* `brand` is the index of the brandN variable whose _id the product takes
SeedProducts ==
  << [title |-> "Apple AirPods", description |-> "https://www.apple.com/airpods",
      price |-> "250", brand |-> 1],
     [title |-> "Apple iPhone Pro", description |-> "https://www.apple.com/iphone-11-pro",
      price |-> "1000", brand |-> 1],
     [title |-> "Apple Watch", description |-> "https://www.apple.com/watch",
      price |-> "499", brand |-> 1],
     [title |-> "Vespa Primavera",
      description |-> "https://www.vespa.com/us_EN/vespa-models/primavera.html",
      price |-> "3000", brand |-> 2],
     [title |-> "New Balance 574 Core",
      description |-> "https://www.newbalance.com/pd/574-core/ML574-EG.html",
      price |-> "84", brand |-> 3],
     [title |-> "Tribe Messenger Bike 004",
      description |-> "https://tribebicycles.com/collections/messenger-series/products/mess-004-tx",
      price |-> "675", brand |-> 4],
     [title |-> "Stumptown Hair Bender Coffee",
      description |-> "https://www.stumptowncoffee.com/products/hair-bender",
      price |-> "17", brand |-> 5] >>

NumBrands == Len(SeedBrands)

NumProducts == Len(SeedProducts)

\* -------------------------------------------------------------------- state
VARIABLES
  brands,     \* the Brand collection: a set of documents
  products,   \* the Product collection: documents in insertion order
  nextId,     \* the ObjectId generator: the next fresh identifier
  seedPc,     \* where the seed script is: idle, main, insertMany, inserted, done
  built,      \* brand1.._brandN as constructed so far by main
  pending,    \* Brand documents whose save() was issued and has not completed
  batch,      \* the documents of the insertMany in flight
  conn,       \* the seed script's database connection: none, open, closed
  runs,       \* seed runs that reached db.close()
  created,    \* history: the inputs every Product was created from, by _id
  req         \* the HTTP requests, by request number

seedVars == <<seedPc, built, pending, batch, conn, runs, created>>

vars ==
  <<brands, products, nextId, seedPc, built, pending, batch, conn, runs, created, req>>

\* ------------------------------------------------------------ seed script
\* the products array of main: each entry takes the _id captured in brandN
productInputs(bs) ==
  [k \in 1..NumProducts |->
    [title |-> SeedProducts[k].title, description |-> SeedProducts[k].description,
     price |-> SeedProducts[k].price, brand |-> bs[SeedProducts[k].brand]._id]]

\* run() is called: main starts, constructs brand1 (its _id is generated by
\* the constructor) and suspends at the first await
SeedRun(limit) ==
  /\ seedPc \in {"idle", "done"}
  /\ runs < limit
  /\ seedPc' = "main"
  /\ conn' = "open"
  /\ pending' = {}
  /\ batch' = <<>>
  /\ built' = <<brandSchema(SeedBrands[1], nextId)>>
  /\ nextId' = nextId + 1
  /\ UNCHANGED <<brands, products, runs, created, req>>

\* main resumes: brandN.save() is called and NOT awaited; then either the
\* next brand is constructed (await), or, after brand5, the products array
\* is built and Product.insertMany(products) is issued and awaited
SeedSaveBrand ==
  /\ seedPc = "main"
  /\ pending' = pending \cup {built[Len(built)]}
  /\ IF Len(built) < NumBrands
       THEN /\ built' = Append(built, brandSchema(SeedBrands[Len(built) + 1], nextId))
            /\ nextId' = nextId + 1
            /\ UNCHANGED <<seedPc, batch, created>>
       ELSE /\ batch' = [k \in 1..NumProducts |->
                          productSchema(productInputs(built)[k], nextId + k - 1)]
            /\ created' = created \cup
                 {[id |-> nextId + k - 1, input |-> productInputs(built)[k]] :
                    k \in 1..NumProducts}
            /\ nextId' = nextId + NumProducts
            /\ seedPc' = "insertMany"
            /\ UNCHANGED built
  /\ UNCHANGED <<brands, products, conn, runs, req>>

\* the database completes one of the saves in flight
SaveComplete(b) ==
  /\ b \in pending
  /\ conn = "open"
  /\ brandValid(b)
  /\ brands' = brands \cup {b}
  /\ pending' = pending \ {b}
  /\ UNCHANGED <<products, nextId, seedPc, built, batch, conn, runs, created, req>>

\* the database completes the batch insert (ordered: in array order)
InsertManyComplete ==
  /\ seedPc = "insertMany"
  /\ conn = "open"
  /\ \A k \in 1..Len(batch) : productValid(batch[k])
  /\ products' = products \o batch
  /\ batch' = <<>>
  /\ seedPc' = "inserted"
  /\ UNCHANGED <<brands, nextId, built, pending, conn, runs, created, req>>

\* main resumes after insertMany, logs and returns; run resumes and calls
\* db.close().  Saves still in flight are cut off with the connection.
SeedClose ==
  /\ seedPc = "inserted"
  /\ conn' = "closed"
  /\ seedPc' = "done"
  /\ runs' = runs + 1
  /\ UNCHANGED <<brands, products, nextId, built, pending, batch, created, req>>

\* ------------------------------------------------------------- the models
\* the Brand collection in natural (here: identifier) order
RECURSIVE naturalOrder(_)
naturalOrder(S) ==
  IF S = {} THEN <<>>
  ELSE LET d == CHOOSE x \in S : \A y \in S : x._id <= y._id
       IN <<d>> \o naturalOrder(S \ {d})

\* the documents a model reads
Collection(model) == IF model = "Product" THEN products ELSE naturalOrder(brands)

\* Model.find({}): every document of the collection, or a rejection when
\* the database cannot be reached
find(model, up) ==
  IF ~up THEN [kind |-> "error", error |-> "Unavailable"]
  ELSE [kind |-> "docs", docs |-> Collection(model)]

\* Model.findById(id): the id is cast to an ObjectId first (CastError when
\* malformed); the query yields the document, or null when there is none
findById(model, id, up) ==
  IF ~WellFormed(id) THEN [kind |-> "error", error |-> "CastError"]
  ELSE IF ~up THEN [kind |-> "error", error |-> "Unavailable"]
  ELSE LET c == Collection(model)
           match == {k \in 1..Len(c) : c[k]._id = FromHex(id)}
       IN IF match = {} THEN [kind |-> "null"]
          ELSE [kind |-> "doc", doc |-> c[CHOOSE k \in match : TRUE]]

\* JSON serialisation of a document: ObjectIds become hex strings
toJSON(doc) ==
  IF "title" \in DOMAIN doc
    THEN [_id |-> ToHex(doc._id), title |-> doc.title, description |-> doc.description,
          price |-> doc.price, brand |-> ToHex(doc.brand)]
    ELSE [_id |-> ToHex(doc._id), name |-> doc.name, url |-> doc.url]

toJSONArray(docs) == [k \in 1..Len(docs) |-> toJSON(docs[k])]

\* ---------------------------------------------------------------- responses
NoResponse == [status |-> 0, via |-> "none", body |-> ""]

\* res.send(text): the text as the body; the status is never set, so it is
\* the default 200
res_send(text) == [status |-> 200, via |-> "send", body |-> text]

\* res.json(value): the value serialised as the body, default status
res_json(value) == [status |-> 200, via |-> "json", body |-> value]

\* ----------------------------------------------------------------- requests
NoResult == [kind |-> "none"]

NewReq ==
  [pc |-> "new", route |-> "none", id |-> <<>>, result |-> NoResult,
   cause |-> "none", hit |-> FALSE, count |-> 0, res |-> NoResponse,
   calls |-> <<>>]

\* identifiers the clients ask for: those of the first Brand and of the
\* first Product of the first seed run (each is well-formed and matches
\* nothing on the other resource's route, and nothing before it is stored)
ProbeIds == {1, NumBrands + 1}

\* malformed identifiers: a non-hex digit, a wrong length
Malformed == {[i \in 1..IdLen |-> "g"], ToHex(1) \o <<"0">>}

ReqIds == {ToHex(n) : n \in ProbeIds} \cup Malformed

\* the brands routes pasted from the products routes, model name unchanged
ModelOf_pasted(route) == "Product"

ModelOf(route) == IF route \in {"products", "product"} THEN "Product" ELSE "Brand"

\* app.get('/'): answers at once
GetRoot(r) ==
  /\ req[r].pc = "new"
  /\ req' = [req EXCEPT ![r] = [@ EXCEPT !.pc = "done", !.route = "root",
                                         !.res = res_send("This is root"),
                                         !.calls = <<res_send("This is root")>>]]
  /\ UNCHANGED <<brands, products, nextId, seedVars>>

\* app.get('/products'): Product.find({}) is issued, the handler awaits
GetProducts(r) ==
  /\ req[r].pc = "new"
  /\ req' = [req EXCEPT ![r] = [@ EXCEPT !.pc = "awaiting", !.route = "products"]]
  /\ UNCHANGED <<brands, products, nextId, seedVars>>

\* app.get('/products/:id'): id from req.params, Product.findById(id) issued
GetProductById(r, id) ==
  /\ req[r].pc = "new"
  /\ req' = [req EXCEPT ![r] = [@ EXCEPT !.pc = "awaiting", !.route = "product",
                                         !.id = id]]
  /\ UNCHANGED <<brands, products, nextId, seedVars>>

\* app.get('/brands'): Brand.find({}) is issued, the handler awaits
GetBrands(r) ==
  /\ req[r].pc = "new"
  /\ req' = [req EXCEPT ![r] = [@ EXCEPT !.pc = "awaiting", !.route = "brands"]]
  /\ UNCHANGED <<brands, products, nextId, seedVars>>

\* app.get('/brands/:id'): id from req.params, Brand.findById(id) issued
GetBrandById(r, id) ==
  /\ req[r].pc = "new"
  /\ req' = [req EXCEPT ![r] = [@ EXCEPT !.pc = "awaiting", !.route = "brand",
                                         !.id = id]]
  /\ UNCHANGED <<brands, products, nextId, seedVars>>

\* what the awaited query settles to, against the store as it is now
QueryResult(route, id, up) ==
  IF route \in {"products", "brands"} THEN find(ModelOf(route), up)
  ELSE findById(ModelOf(route), id, up)

CauseOf(result) == IF result.kind = "error" THEN result.error ELSE result.kind

\* whether the requested id is the identifier of a stored record of the
\* route's collection, as that identifier reads on the wire
Stored(route, id) ==
  LET c == Collection(ModelOf(route))
  IN \E k \in 1..Len(c) : ToHex(c[k]._id) = id

\* how many records of the route's resource are stored
StoredCount(route) ==
  IF route \in {"products", "product"} THEN Len(products) ELSE Cardinality(brands)

\* the awaited query settles: the database served it (up) or could not be
\* reached.  hit and count record the store at this moment.
Settle(r, up) ==
  /\ req[r].pc = "awaiting"
  /\ LET result == QueryResult(req[r].route, req[r].id, up)
     IN req' = [req EXCEPT ![r] =
                  [@ EXCEPT !.pc = "settled", !.result = result,
                            !.cause = CauseOf(result),
                            !.hit = Stored(req[r].route, req[r].id),
                            !.count = StoredCount(req[r].route)]]
  /\ UNCHANGED <<brands, products, nextId, seedVars>>

\* an error that leaves the handler: nothing is sent
Escaped == [pc |-> "escaped", res |-> NoResponse, calls |-> <<>>]

\* the handler ended having made these res.send / res.json calls, in order;
\* the first one is the response the client gets
Responded(calls) == [pc |-> "done", res |-> calls[1], calls |-> calls]

Sent(response) == Responded(<<response>>)

\* try { ... } catch (err) { console.log(err); res.send(text) }: the calls of
\* the try block, then the catch block's res.send when the try block threw
TryCatch(tried, text) ==
  Responded(tried.calls \o (IF tried.thrown THEN <<res_send(text)>> ELSE <<>>))

\* rest of app.get('/products'): no try/catch, a rejection leaves the handler
listProducts(result) ==
  IF result.kind = "error" THEN Escaped
  ELSE Sent(res_json(toJSONArray(result.docs)))

\* rest of app.get('/brands'): no try/catch, a rejection leaves the handler
listBrands(result) ==
  IF result.kind = "error" THEN Escaped
  ELSE Sent(res_json(toJSONArray(result.docs)))

\* a catch block that only handles its own not-found error and rethrows the
\* rest
getProduct_rethrow(result) ==
  IF result.kind = "error" THEN Escaped
  ELSE IF result.kind = "null" THEN Sent(res_send("Product not found."))
  ELSE Sent(res_json(toJSON(result.doc)))

\* the handler before the null check was added: a null product is sent as
\* JSON null
getProduct_noNullCheck(result) ==
  IF result.kind = "error" THEN Sent(res_send("Product not found."))
  ELSE IF result.kind = "null" THEN Sent(res_json("null"))
  ELSE Sent(res_json(toJSON(result.doc)))

\* the try block with res.json(product) written before the null check
tryProduct_jsonFirst(result) ==
  IF result.kind = "error" THEN [thrown |-> TRUE, calls |-> <<>>]
  ELSE IF result.kind = "null" THEN [thrown |-> TRUE, calls |-> <<res_json("null")>>]
  ELSE [thrown |-> FALSE, calls |-> <<res_json(toJSON(result.doc))>>]

\* the try block of app.get('/products/:id') after its await: a rejection
\* is rethrown by the await, a null product throws Error('Product not
\* found'), both before anything is sent; otherwise res.json(product) is the
\* last statement
tryProduct(result) ==
  IF result.kind = "error" \/ result.kind = "null"
    THEN [thrown |-> TRUE, calls |-> <<>>]
    ELSE [thrown |-> FALSE, calls |-> <<res_json(toJSON(result.doc))>>]

\* rest of app.get('/products/:id'): a rejection or a null product throws
\* into the catch block, which sends the fixed text
getProduct(result) == TryCatch(tryProduct(result), "Product not found.")

\* the catch block pasted from the products route, message unchanged
getBrand_pastedText(result) ==
  IF result.kind = "error" \/ result.kind = "null"
    THEN Sent(res_send("Product not found."))
    ELSE Sent(res_json(toJSON(result.doc)))

\* the try block of app.get('/brands/:id') after its await
tryBrand(result) ==
  IF result.kind = "error" \/ result.kind = "null"
    THEN [thrown |-> TRUE, calls |-> <<>>]
    ELSE [thrown |-> FALSE, calls |-> <<res_json(toJSON(result.doc))>>]

\* rest of app.get('/brands/:id')
getBrand(result) == TryCatch(tryBrand(result), "Brand not found.")

Handle(route, result) ==
  CASE route = "products" -> listProducts(result)
    [] route = "product" -> getProduct(result)
    [] route = "brands" -> listBrands(result)
    [] route = "brand" -> getBrand(result)

\* a handler that creates the record it did not find
Resume_upsert(r) ==
  /\ req[r].pc = "settled"
  /\ LET out == Handle(req[r].route, req[r].result)
     IN req' = [req EXCEPT ![r] = [@ EXCEPT !.pc = out.pc, !.res = out.res,
                                            !.calls = out.calls,
                                            !.result = NoResult]]
  /\ IF req[r].route = "product" /\ req[r].result.kind = "null"
       THEN products' = Append(products,
              productSchema([title |-> "new", description |-> "new", price |-> "0",
                             brand |-> 0], FromHex(req[r].id)))
       ELSE UNCHANGED products
  /\ UNCHANGED <<brands, nextId, seedVars>>

\* the handler resumes after its await and runs to its end
Resume(r) ==
  /\ req[r].pc = "settled"
  /\ LET out == Handle(req[r].route, req[r].result)
     IN req' = [req EXCEPT ![r] = [@ EXCEPT !.pc = out.pc, !.res = out.res,
                                            !.calls = out.calls,
                                            !.result = NoResult]]
  /\ UNCHANGED <<brands, products, nextId, seedVars>>

\* ------------------------------------------------------------ specification
Init ==
  /\ brands = {}
  /\ products = <<>>
  /\ nextId = 1
  /\ seedPc = "idle"
  /\ built = <<>>
  /\ pending = {}
  /\ batch = <<>>
  /\ conn = "none"
  /\ runs = 0
  /\ created = {}
  /\ req = [r \in Requests |-> NewReq]

\* the seed script and the database completing its operations
SeedSteps ==
  \/ SeedSaveBrand
  \/ \E b \in pending : SaveComplete(b)
  \/ InsertManyComplete
  \/ SeedClose

Seed == SeedRun(MaxRuns) \/ SeedSteps

\* the server taking the requests of R
ServeOf(R) ==
  \/ \E r \in R : GetRoot(r)
  \/ \E r \in R : GetProducts(r)
  \/ \E r \in R, id \in ReqIds : GetProductById(r, id)
  \/ \E r \in R : GetBrands(r)
  \/ \E r \in R, id \in ReqIds : GetBrandById(r, id)
  \/ \E r \in R, up \in BOOLEAN : Settle(r, up)
  \/ \E r \in R : Resume(r)

Serve == ServeOf(Requests)

Next == Seed \/ Serve

Spec == Init /\ [][Next]_vars

\* the seed script alone, run after run against the same store
NextSeed == SeedRun(MaxSeedRuns) \/ SeedSteps

SpecSeed == Init /\ [][NextSeed]_vars

\* the seed script run after run while the server takes the first request
NextSeeded == NextSeed \/ ServeOf({1})

SpecSeeded == Init /\ [][NextSeeded]_vars

\* ------------------------------------------------------------------ claims
Finished(r) == req[r].pc \in {"done", "escaped"}

IsText(r, text) ==
  /\ req[r].pc = "done"
  /\ req[r].res.via = "send"
  /\ req[r].res.status = 200
  /\ req[r].res.body = text

IsJson(r) ==
  /\ req[r].pc = "done"
  /\ req[r].res.via = "json"
  /\ req[r].res.status = 200

C2_BrandNotFound ==
  \A r \in Requests :
    (req[r].route = "brand" /\ Finished(r) /\ ~req[r].hit)
      => IsText(r, "Brand not found.")

\* C2 witness: a well-formed id that is no Brand's, asked while Brands are
\* stored, was answered with the text
C2_Witness ==
  \E r \in Requests :
    /\ req[r].route = "brand"
    /\ req[r].cause = "null"
    /\ req[r].count > 0
    /\ IsText(r, "Brand not found.")

FailureCauses == {"null", "CastError", "Unavailable"}

NotFoundText(route) == IF route = "product" THEN "Product not found." ELSE "Brand not found."

\* C3: on both by-id routes a lookup that ended with no record, with a cast
\* error or with the database unavailable is answered the same way: the
\* route's not-found text, by res.send, status 200, never an error status.
C3_FailuresConflated ==
  \A r \in Requests :
    (req[r].route \in {"product", "brand"} /\ Finished(r)
       /\ req[r].cause \in FailureCauses)
      => IsText(r, NotFoundText(req[r].route))

\* C3 witness: two requests to the same by-id route failed for different
\* reasons, one of them a raised error, and got the very same response
C3_Witness ==
  \E r1, r2 \in Requests :
    /\ req[r1].route \in {"product", "brand"}
    /\ req[r2].route = req[r1].route
    /\ req[r1].cause = "null"
    /\ req[r2].cause \in {"CastError", "Unavailable"}
    /\ IsText(r1, NotFoundText(req[r1].route))
    /\ IsText(r2, NotFoundText(req[r1].route))

\* C4: on each of the four model routes a failed query is answered with a
\* fixed text and status 200: no error leaves its handler and no finished
\* request is without a response.
C4_ErrorsCaughtOnEveryRoute ==
  \A r \in Requests :
    (Finished(r) /\ req[r].cause \in {"CastError", "Unavailable"})
      => (req[r].pc = "done" /\ req[r].res.via = "send" /\ req[r].res.status = 200)

\* C5: after one seed run on an empty store has closed its connection the
\* store holds exactly 5 Brands and 7 Products, the first Product being
\* "Apple AirPods" at price "250".
C5_SeededOnce ==
  (seedPc = "done" /\ runs = 1)
    => /\ Cardinality(brands) = 5
       /\ Len(products) = 7
       /\ products[1].title = "Apple AirPods"
       /\ products[1].price = "250"

\* C6: a list route that answered sent a JSON array with as many entries as
\* records of its resource were stored when the query settled (none: empty).
C6_ListLength ==
  \A r \in Requests :
    (req[r].route \in {"products", "brands"} /\ req[r].pc = "done")
      => (IsJson(r) /\ Len(req[r].res.body) = req[r].count)

\* C6 witness: GET /brands answered after a second seed run had begun, with
\* more Brands than one run seeds and fewer than two runs would
C6_Witness ==
  \E r \in Requests :
    /\ req[r].route = "brands" /\ IsJson(r)
    /\ Len(req[r].res.body) > NumBrands
    /\ Len(req[r].res.body) < NumBrands + NumBrands
    /\ Len(products) > NumProducts

\* C7: a Product created with a brand identifier and fetched by its own
\* identifier (the lookup reaching the store, the Product stored) comes back
\* as JSON with that brand identifier and the title, description and price
\* it was created with, whether or not the Brand is stored.
C7_RoundTrip ==
  \A r \in Requests : \A c \in created :
    (req[r].route = "product" /\ Finished(r) /\ req[r].id = ToHex(c.id)
       /\ req[r].hit /\ req[r].cause # "Unavailable")
      => /\ IsJson(r)
         /\ req[r].res.body._id = ToHex(c.id)
         /\ req[r].res.body.brand = ToHex(c.input.brand)
         /\ req[r].res.body.title = c.input.title
         /\ req[r].res.body.description = c.input.description
         /\ req[r].res.body.price = c.input.price

\* C7 witness: a created Product was fetched and returned while the Brand it
\* references is not in the store
C7_Witness ==
  \E r \in Requests : \E c \in created :
    /\ req[r].route = "product" /\ req[r].id = ToHex(c.id) /\ IsJson(r)
    /\ req[r].res.body.brand = ToHex(c.input.brand)
    /\ \A b \in brands : b._id # c.input.brand

IsPrefix(s, t) == Len(s) <= Len(t) /\ SubSeq(t, 1, Len(s)) = s

\* C8: no step of a request changes the stored Products or Brands, and no
\* step at all removes or changes a stored record: the collections only grow.
C8_RequestsReadOnly ==
  [][ /\ (req' # req => (brands' = brands /\ products' = products))
      /\ brands \subseteq brands'
      /\ IsPrefix(products, products') ]_vars

\* C8 witness: every request has finished, one of them on the not-found
\* path, against a store that holds Brands and Products
C8_Witness ==
  /\ \A r \in Requests : Finished(r)
  /\ \E r \in Requests : req[r].cause = "null" /\ req[r].res.via = "send"
  /\ brands # {}
  /\ products # <<>>

\* C9: k completed seed runs on an empty store leave 5k Brands and 7k
\* Products, all with distinct identifiers.
C9_EachRunAdds ==
  (seedPc \in {"idle", "done"})
    => /\ Cardinality(brands) = 5 * runs
       /\ Len(products) = 7 * runs
       /\ \A i, j \in 1..Len(products) : products[i]._id = products[j]._id => i = j

\* C10: at most one Brand save is in flight at a time, none is in flight
\* once insertMany is issued or the connection is closed, and every stored
\* Product's Brand is stored.
C10_SeedOrdered ==
  /\ Cardinality(pending) <= 1
  /\ seedPc \in {"insertMany", "inserted", "done"} => pending = {}
  /\ conn = "closed" => pending = {}
  /\ \A k \in 1..Len(products) : \E b \in brands : b._id = products[k].brand

\* C11: a finished request to a by-id route has had exactly one res call
\* made for it, either res.json with the record or res.send with the
\* route's not-found text: the catch block's res.send never follows a
\* res.json of the same request, however the requests interleave.
C11_OneResponse ==
  \A r \in Requests :
    (req[r].route \in {"product", "brand"} /\ Finished(r))
      => /\ Len(req[r].calls) = 1
         /\ \/ (req[r].calls[1].via = "json" /\ req[r].cause = "doc"
                  /\ req[r].calls[1].body._id = req[r].id)
            \/ (req[r].calls[1].via = "send"
                  /\ req[r].calls[1].body = NotFoundText(req[r].route))

\* C11 witness: two requests to /products/:id were in flight together, both
\* finished, one with the record as JSON and one with the not-found text
C11_Witness ==
  \E r1, r2 \in Requests :
    /\ req[r1].route = "product" /\ req[r2].route = "product"
    /\ req[r1].pc = "done" /\ req[r2].pc = "done"
    /\ Len(req[r1].calls) = 1 /\ req[r1].calls[1].via = "json"
    /\ Len(req[r2].calls) = 1 /\ req[r2].calls[1].via = "send"

====
